---- MODULE Spec2Model ----
(***************************************************************************)
(* Model of src/common_token_factory.rs: the token factories               *)
(* (CowTokenFactory, CommonTokenFactory, ArenaFactory), the lazily         *)
(* initialised invalid-token statics and the arena the ArenaFactory        *)
(* allocates into.                                                         *)
(*                                                                         *)
(* Option<T> is a sequence of length 0 (None) or 1 (Some).  Strings are    *)
(* sequences of one-character strings, so that slices can be computed.     *)
(* A handle (Box<T>, &T into the arena, &T to a static) is a record        *)
(* [kind, buf, off] naming the storage the token lives in.                 *)
(***************************************************************************)
EXTENDS Integers, Sequences, FiniteSets, TLC

VARIABLES once, cell, constructed, boxes, arena, arenaTF, calls, pc, seen

vars == <<once, cell, constructed, boxes, arena, arenaTF, calls, pc, seen>>

----------------------------------------------------------------------------
(* Bounds *)

MaxSrcLen == 2

MaxCalls == 3

ArenaInitialCap == 1

NumThreads == 3

----------------------------------------------------------------------------
(* Values *)

TOKEN_INVALID_TYPE == 0

None == <<>>

Some(x) == <<x>>

EOF_TEXT == <<"<", "E", "O", "F", ">">>

INVALID_TEXT == <<"<", "i", "n", "v", "a", "l", "i", "d", ">">>

EMPTY_TEXT == <<>>

FOO_TEXT == <<"f", "o", "o">>

Alphabet == <<"a", "b", "c", "d", "e", "f", "g", "h">>

\* a character stream holding the first n letters; size() is its length
Data(n) == SubSeq(Alphabet, 1, n)

StaticNames == {"INVALID_OWNING", "INVALID_COMMON"}

BaseFactories == {"CowTokenFactory", "CommonTokenFactory"}

Threads == 1..NumThreads

Max(a, b) == IF a >= b THEN a ELSE b

Min(a, b) == IF a <= b THEN a ELSE b

\* the value a dangling or never issued handle reads
Dangling ==
    [token_type |-> -99, channel |-> -99, start |-> -99, stop |-> -99,
     token_index |-> -99, line |-> -99, column |-> -99,
     text |-> [tag |-> "Dangling", s |-> EMPTY_TEXT], read_only |-> FALSE]

----------------------------------------------------------------------------
(* The invalid-token statics *)

INVALID_OWNING ==
    [token_type |-> TOKEN_INVALID_TYPE, channel |-> 0, start |-> -1,
     stop |-> -1, token_index |-> -1, line |-> -1, column |-> -1,
     text |-> [tag |-> "String", s |-> INVALID_TEXT], read_only |-> TRUE]

INVALID_COMMON_Writable ==
    [token_type |-> TOKEN_INVALID_TYPE, channel |-> 0, start |-> -1,
     stop |-> -1, token_index |-> -1, line |-> -1, column |-> -1,
     text |-> [tag |-> "Borrowed", s |-> INVALID_TEXT], read_only |-> FALSE]

INVALID_COMMON ==
    [token_type |-> TOKEN_INVALID_TYPE, channel |-> 0, start |-> -1,
     stop |-> -1, token_index |-> -1, line |-> -1, column |-> -1,
     text |-> [tag |-> "Borrowed", s |-> INVALID_TEXT], read_only |-> TRUE]

StaticInit(n) == IF n = "INVALID_OWNING" THEN INVALID_OWNING ELSE INVALID_COMMON

\* lazy_static guards the initialiser with a Once: the first accessor moves
\* it from INCOMPLETE to RUNNING before it runs the initialiser
OnceClaimRacy == "INCOMPLETE"

OnceClaim == "RUNNING"

\* a whole access to the static made by one call: the initialiser runs
\* if it has not run yet
ForcedOnce(n) == [once EXCEPT ![n] = "COMPLETE"]

ForcedConstructed(n) ==
    IF once[n] = "COMPLETE" THEN constructed
    ELSE [constructed EXCEPT ![n] = @ + 1]

ForcedCell(n) ==
    IF once[n] = "COMPLETE" THEN cell
    ELSE [cell EXCEPT ![n] = Some([inst |-> constructed[n] + 1,
                                   tok |-> StaticInit(n)])]

ForcedHandle(n) == [kind |-> n, buf |-> ForcedCell(n)[n][1].inst, off |-> 0]

----------------------------------------------------------------------------
(* Arguments of create *)

Sources == {None} \cup {Some(Data(n)) : n \in 0..MaxSrcLen}

Texts == {None, Some(FOO_TEXT), Some(EMPTY_TEXT)}

Offsets == (-1)..(MaxSrcLen + 1)

Args ==
    [source : Sources, ttype : {1, 2}, text : Texts, channel : {0, 1},
     start : Offsets, stop : Offsets, line : {1, 2}, column : {0, 1}]

\* the arguments used where several calls follow one another: a slice of
\* the source, a span ending past the source, an explicit text, nothing
SmallArg(source, text, stop) ==
    [source |-> source, ttype |-> 1, text |-> text, channel |-> 0,
     start |-> 0, stop |-> stop, line |-> 1, column |-> 0]

SmallArgs ==
    {SmallArg(Some(Data(MaxSrcLen)), None, MaxSrcLen - 1),
     SmallArg(Some(Data(MaxSrcLen)), None, MaxSrcLen),
     SmallArg(Some(Data(MaxSrcLen)), Some(FOO_TEXT), MaxSrcLen),
     SmallArg(None, None, 0)}

NoArgs ==
    [source |-> None, ttype |-> 0, text |-> None, channel |-> 0,
     start |-> 0, stop |-> 0, line |-> 0, column |-> 0]

----------------------------------------------------------------------------
(* CharStream::get_text: the slice [start, stop] of the stream.  Outside   *)
(* the stream's offsets the result is not determined here: the call may    *)
(* panic or return the part of the range that exists.                      *)

GetTextOutcomes(data, start, stop) ==
    IF 0 <= start /\ 0 <= stop /\ start < Len(data) /\ stop < Len(data)
    THEN {<<"ok", SubSeq(data, start + 1, stop + 1)>>}
    ELSE {<<"ok", SubSeq(data, Max(start, 0) + 1,
                               Min(stop, Len(data) - 1) + 1)>>,
          <<"panic", EMPTY_TEXT>>}

----------------------------------------------------------------------------
(* Storage *)

BoxHandle(addr) == [kind |-> "box", buf |-> addr, off |-> 0]

PanicHandle == [kind |-> "panic", buf |-> 0, off |-> 0]

\* Arena<T>: the chunks already filled and the chunk being filled
Chunks(ar) == Append(ar.rest, ar.current)

ArenaLen(ar) ==
    LET cs == Chunks(ar)
        Sum[i \in 0..Len(cs)] ==
            IF i = 0 THEN 0 ELSE Sum[i - 1] + Len(cs[i].elems)
    IN  Sum[Len(cs)]

ArenaDefault ==
    [rest |-> <<>>,
     current |-> [buf |-> 1, cap |-> ArenaInitialCap, elems |-> <<>>]]

\* a growth that moves the elements of the current chunk to a larger buffer
ArenaAllocRealloc(ar, value) ==
    IF Len(ar.current.elems) < ar.current.cap
    THEN [ar EXCEPT !.current.elems = Append(@, value)]
    ELSE [rest |-> ar.rest,
          current |-> [buf |-> ar.current.buf + 1,
                       cap |-> Max(2 * ar.current.cap, 1),
                       elems |-> Append(ar.current.elems, value)]]

\* Arena::alloc: push into the current chunk; when it is full the chunk is
\* set aside as it is and a new chunk of twice the capacity is started
ArenaAlloc(ar, value) ==
    IF Len(ar.current.elems) < ar.current.cap
    THEN [ar EXCEPT !.current.elems = Append(@, value)]
    ELSE [rest |-> Append(ar.rest, ar.current),
          current |-> [buf |-> ar.current.buf + 1,
                       cap |-> Max(2 * ar.current.cap, 1),
                       elems |-> <<value>>]]

\* the reference alloc returns: the last element of the current chunk
ArenaLastRef(ar) ==
    [kind |-> "arena", buf |-> ar.current.buf, off |-> Len(ar.current.elems)]

\* reading through a handle
Deref(h) ==
    IF h.kind = "box"
    THEN IF h.buf \in 1..Len(boxes) THEN boxes[h.buf] ELSE Dangling
    ELSE IF h.kind = "arena"
    THEN LET cs == Chunks(arena)
             hit == {i \in 1..Len(cs) :
                        cs[i].buf = h.buf /\ h.off \in 1..Len(cs[i].elems)}
         IN  IF hit = {} THEN Dangling
             ELSE cs[CHOOSE i \in hit : TRUE].elems[h.off]
    ELSE IF h.kind \in StaticNames
    THEN IF Len(cell[h.kind]) = 1 /\ cell[h.kind][1].inst = h.buf
         THEN cell[h.kind][1].tok ELSE Dangling
    ELSE Dangling

\* Clone for a token: a copy of every field
TokenClone(t) == t

----------------------------------------------------------------------------
(* CowTokenFactory *)

CowTextSourceFirst(text, source, start, stop) ==
    IF Len(source) = 1
    THEN IF stop >= Len(source[1]) \/ start >= Len(source[1])
         THEN {[st |-> "ok", text |-> [tag |-> "Borrowed", s |-> EOF_TEXT],
                query |-> None]}
         ELSE {[st |-> r[1], text |-> [tag |-> "Borrowed", s |-> r[2]],
                query |-> Some(<<start, stop>>)] :
                    r \in GetTextOutcomes(source[1], start, stop)}
    ELSE IF Len(text) = 1
    THEN {[st |-> "ok", text |-> [tag |-> "Owned", s |-> text[1]],
           query |-> None]}
    ELSE {[st |-> "ok", text |-> [tag |-> "Borrowed", s |-> EMPTY_TEXT],
           query |-> None]}

CowTextAlwaysOwned(text, source, start, stop) ==
    IF Len(text) = 1
    THEN {[st |-> "ok", text |-> [tag |-> "Owned", s |-> text[1]],
           query |-> None]}
    ELSE IF Len(source) = 1
    THEN IF stop >= Len(source[1]) \/ start >= Len(source[1])
         THEN {[st |-> "ok", text |-> [tag |-> "Owned", s |-> EOF_TEXT],
                query |-> None]}
         ELSE {[st |-> r[1], text |-> [tag |-> "Owned", s |-> r[2]],
                query |-> Some(<<start, stop>>)] :
                    r \in GetTextOutcomes(source[1], start, stop)}
    ELSE {[st |-> "ok", text |-> [tag |-> "Owned", s |-> EMPTY_TEXT],
           query |-> None]}

\* the match on (text, source): the text of the token, the query made to
\* the source, and whether that query returned
CowText(text, source, start, stop) ==
    IF Len(text) = 1
    THEN {[st |-> "ok", text |-> [tag |-> "Owned", s |-> text[1]],
           query |-> None]}
    ELSE IF Len(source) = 1
    THEN IF stop >= Len(source[1]) \/ start >= Len(source[1])
         THEN {[st |-> "ok", text |-> [tag |-> "Borrowed", s |-> EOF_TEXT],
                query |-> None]}
         ELSE {[st |-> r[1], text |-> [tag |-> "Borrowed", s |-> r[2]],
                query |-> Some(<<start, stop>>)] :
                    r \in GetTextOutcomes(source[1], start, stop)}
    ELSE {[st |-> "ok", text |-> [tag |-> "Borrowed", s |-> EMPTY_TEXT],
           query |-> None]}

CowTokenSwapped(ttype, channel, start, stop, line, column, text) ==
    [token_type |-> ttype, channel |-> channel, start |-> start,
     stop |-> stop, token_index |-> -1, line |-> column, column |-> line,
     text |-> text, read_only |-> FALSE]

CowToken(ttype, channel, start, stop, line, column, text) ==
    [token_type |-> ttype, channel |-> channel, start |-> start,
     stop |-> stop, token_index |-> -1, line |-> line, column |-> column,
     text |-> text, read_only |-> FALSE]

\* the results create can have: a token, or a panic out of get_text
CowFactoryCreate(a) ==
    {[st |-> o.st, query |-> o.query,
      tok |-> CowToken(a.ttype, a.channel, a.start, a.stop, a.line,
                       a.column, o.text)] :
        o \in CowText(a.text, a.source, a.start, a.stop)}

----------------------------------------------------------------------------
(* CommonTokenFactory *)

CommonTextAnd(text, source, start, stop) ==
    IF Len(text) = 1
    THEN {[st |-> "ok", text |-> [tag |-> "String", s |-> text[1]],
           query |-> None]}
    ELSE IF Len(source) = 1
    THEN IF stop >= Len(source[1]) /\ start >= Len(source[1])
         THEN {[st |-> "ok", text |-> [tag |-> "String", s |-> EOF_TEXT],
                query |-> None]}
         ELSE {[st |-> r[1], text |-> [tag |-> "String", s |-> r[2]],
                query |-> Some(<<start, stop>>)] :
                    r \in GetTextOutcomes(source[1], start, stop)}
    ELSE {[st |-> "ok", text |-> [tag |-> "String", s |-> EMPTY_TEXT],
           query |-> None]}

CommonText(text, source, start, stop) ==
    IF Len(text) = 1
    THEN {[st |-> "ok", text |-> [tag |-> "String", s |-> text[1]],
           query |-> None]}
    ELSE IF Len(source) = 1
    THEN IF stop >= Len(source[1]) \/ start >= Len(source[1])
         THEN {[st |-> "ok", text |-> [tag |-> "String", s |-> EOF_TEXT],
                query |-> None]}
         ELSE {[st |-> r[1], text |-> [tag |-> "String", s |-> r[2]],
                query |-> Some(<<start, stop>>)] :
                    r \in GetTextOutcomes(source[1], start, stop)}
    ELSE {[st |-> "ok", text |-> [tag |-> "String", s |-> EMPTY_TEXT],
           query |-> None]}

CommonToken(ttype, channel, start, stop, line, column, text) ==
    [token_type |-> ttype, channel |-> channel, start |-> start,
     stop |-> stop, token_index |-> -1, line |-> line, column |-> column,
     text |-> text, read_only |-> FALSE]

CommonFactoryCreate(a) ==
    {[st |-> o.st, query |-> o.query,
      tok |-> CommonToken(a.ttype, a.channel, a.start, a.stop, a.line,
                          a.column, o.text)] :
        o \in CommonText(a.text, a.source, a.start, a.stop)}

----------------------------------------------------------------------------
(* Calls.  calls records, for each call made so far, the factory, the      *)
(* operation, the arguments, the handle returned, the token the handle     *)
(* read when it was returned, and the query made to the source.  limit     *)
(* bounds the number of calls of a run.                                    *)

CallRecord(f, op, a, ret, tok, query) ==
    [factory |-> f, op |-> op, args |-> a, ret |-> ret, tok |-> tok,
     query |-> query]

\* <CowTokenFactory as TokenFactory>::create
CowCreate(a, limit) ==
    /\ Len(calls) < limit
    /\ \E o \in CowFactoryCreate(a) :
         IF o.st = "ok"
         THEN /\ boxes' = Append(boxes, o.tok)
              /\ calls' = Append(calls,
                    CallRecord("CowTokenFactory", "create", a,
                               BoxHandle(Len(boxes) + 1), o.tok, o.query))
         ELSE /\ boxes' = boxes
              /\ calls' = Append(calls,
                    CallRecord("CowTokenFactory", "create", a,
                               PanicHandle, Dangling, o.query))
    /\ UNCHANGED <<once, cell, constructed, arena, arenaTF, pc, seen>>

\* <CowTokenFactory as TokenFactory>::create_invalid
CowCreateInvalid(limit) ==
    /\ Len(calls) < limit
    /\ once["INVALID_COMMON"] # "RUNNING"
    /\ once' = ForcedOnce("INVALID_COMMON")
    /\ cell' = ForcedCell("INVALID_COMMON")
    /\ constructed' = ForcedConstructed("INVALID_COMMON")
    /\ LET t == TokenClone(ForcedCell("INVALID_COMMON")["INVALID_COMMON"][1].tok)
       IN  /\ boxes' = Append(boxes, t)
           /\ calls' = Append(calls,
                 CallRecord("CowTokenFactory", "create_invalid", NoArgs,
                            BoxHandle(Len(boxes) + 1), t, None))
    /\ UNCHANGED <<arena, arenaTF, pc, seen>>

\* <CommonTokenFactory as TokenFactory>::create
CommonCreate(a, limit) ==
    /\ Len(calls) < limit
    /\ \E o \in CommonFactoryCreate(a) :
         IF o.st = "ok"
         THEN /\ boxes' = Append(boxes, o.tok)
              /\ calls' = Append(calls,
                    CallRecord("CommonTokenFactory", "create", a,
                               BoxHandle(Len(boxes) + 1), o.tok, o.query))
         ELSE /\ boxes' = boxes
              /\ calls' = Append(calls,
                    CallRecord("CommonTokenFactory", "create", a,
                               PanicHandle, Dangling, o.query))
    /\ UNCHANGED <<once, cell, constructed, arena, arenaTF, pc, seen>>

\* <CommonTokenFactory as TokenFactory>::create_invalid
CommonCreateInvalid(limit) ==
    /\ Len(calls) < limit
    /\ once["INVALID_OWNING"] # "RUNNING"
    /\ once' = ForcedOnce("INVALID_OWNING")
    /\ cell' = ForcedCell("INVALID_OWNING")
    /\ constructed' = ForcedConstructed("INVALID_OWNING")
    /\ LET t == TokenClone(ForcedCell("INVALID_OWNING")["INVALID_OWNING"][1].tok)
       IN  /\ boxes' = Append(boxes, t)
           /\ calls' = Append(calls,
                 CallRecord("CommonTokenFactory", "create_invalid", NoArgs,
                            BoxHandle(Len(boxes) + 1), t, None))
    /\ UNCHANGED <<arena, arenaTF, pc, seen>>

----------------------------------------------------------------------------
(* ArenaFactory<TF, T>.  arenaTF is the wrapped factory TF:                *)
(* ArenaCommonFactory wraps CommonTokenFactory, ArenaCowFactory wraps      *)
(* CowTokenFactory.                                                        *)

BaseCreate(tf, a) ==
    IF tf = "CowTokenFactory" THEN CowFactoryCreate(a)
    ELSE CommonFactoryCreate(a)

\* <&T as Default>::default(): the invalid static of the representation T
RefDefaultStatic(tf) ==
    IF tf = "CowTokenFactory" THEN "INVALID_COMMON" ELSE "INVALID_OWNING"

ArenaCreateSwapped(a, limit) ==
    /\ Len(calls) < limit
    /\ \E o \in BaseCreate(arenaTF,
                           [a EXCEPT !.start = a.stop, !.stop = a.start]) :
         IF o.st = "ok"
         THEN /\ arena' = ArenaAlloc(arena, o.tok)
              /\ calls' = Append(calls,
                    CallRecord("ArenaFactory", "create", a,
                               ArenaLastRef(ArenaAlloc(arena, o.tok)),
                               o.tok, o.query))
         ELSE /\ arena' = arena
              /\ calls' = Append(calls,
                    CallRecord("ArenaFactory", "create", a,
                               PanicHandle, Dangling, o.query))
    /\ UNCHANGED <<once, cell, constructed, boxes, arenaTF, pc, seen>>

\* <ArenaFactory as TokenFactory>::create: the wrapped factory builds the
\* token in a box, the token is moved out of the box into the arena
ArenaCreate(a, limit) ==
    /\ Len(calls) < limit
    /\ \E o \in BaseCreate(arenaTF, a) :
         IF o.st = "ok"
         THEN /\ arena' = ArenaAlloc(arena, o.tok)
              /\ calls' = Append(calls,
                    CallRecord("ArenaFactory", "create", a,
                               ArenaLastRef(ArenaAlloc(arena, o.tok)),
                               o.tok, o.query))
         ELSE /\ arena' = arena
              /\ calls' = Append(calls,
                    CallRecord("ArenaFactory", "create", a,
                               PanicHandle, Dangling, o.query))
    /\ UNCHANGED <<once, cell, constructed, boxes, arenaTF, pc, seen>>

ArenaCreateInvalidAlloc(limit) ==
    LET n == RefDefaultStatic(arenaTF)
        t == TokenClone(ForcedCell(n)[n][1].tok)
    IN  /\ Len(calls) < limit
        /\ once[n] # "RUNNING"
        /\ once' = ForcedOnce(n)
        /\ cell' = ForcedCell(n)
        /\ constructed' = ForcedConstructed(n)
        /\ arena' = ArenaAlloc(arena, t)
        /\ calls' = Append(calls,
              CallRecord("ArenaFactory", "create_invalid", NoArgs,
                         ArenaLastRef(ArenaAlloc(arena, t)), t, None))
        /\ UNCHANGED <<boxes, arenaTF, pc, seen>>

\* <ArenaFactory as TokenFactory>::create_invalid
ArenaCreateInvalid(limit) ==
    LET n == RefDefaultStatic(arenaTF)
    IN  /\ Len(calls) < limit
        /\ once[n] # "RUNNING"
        /\ once' = ForcedOnce(n)
        /\ cell' = ForcedCell(n)
        /\ constructed' = ForcedConstructed(n)
        /\ calls' = Append(calls,
              CallRecord("ArenaFactory", "create_invalid", NoArgs,
                         ForcedHandle(n), ForcedCell(n)[n][1].tok, None))
        /\ UNCHANGED <<boxes, arena, arenaTF, pc, seen>>

----------------------------------------------------------------------------
(* Threads reading the statics.  pc[t] is "idle", or the name of the       *)
(* static whose initialiser thread t is running; seen[t][n] is the         *)
(* instance of static n thread t was handed (0: none yet).                 *)

\* first access: the Once is claimed and the initialiser started
LazyEnter(t, n) ==
    /\ pc[t] = "idle"
    /\ once[n] = "INCOMPLETE"
    /\ once' = [once EXCEPT ![n] = OnceClaim]
    /\ pc' = [pc EXCEPT ![t] = n]
    /\ UNCHANGED <<cell, constructed, boxes, arena, arenaTF, calls, seen>>

\* the initialiser returns: the instance is stored and the Once completed
LazyInit(t) ==
    /\ pc[t] \in StaticNames
    /\ LET n == pc[t]
       IN  /\ constructed' = [constructed EXCEPT ![n] = @ + 1]
           /\ cell' = [cell EXCEPT ![n] = Some([inst |-> constructed[n] + 1,
                                                tok |-> StaticInit(n)])]
           /\ once' = [once EXCEPT ![n] = "COMPLETE"]
           /\ seen' = [seen EXCEPT ![t][n] = constructed[n] + 1]
    /\ pc' = [pc EXCEPT ![t] = "idle"]
    /\ UNCHANGED <<boxes, arena, arenaTF, calls>>

\* an access to a completed static (an access to a RUNNING one blocks)
LazyRead(t, n) ==
    /\ pc[t] = "idle"
    /\ once[n] = "COMPLETE"
    /\ seen' = [seen EXCEPT ![t][n] = cell[n][1].inst]
    /\ UNCHANGED <<once, cell, constructed, boxes, arena, arenaTF, calls, pc>>

----------------------------------------------------------------------------
(* Specifications *)

Init ==
    /\ once = [n \in StaticNames |-> "INCOMPLETE"]
    /\ cell = [n \in StaticNames |-> None]
    /\ constructed = [n \in StaticNames |-> 0]
    /\ boxes = <<>>
    /\ arena = ArenaDefault
    /\ arenaTF \in BaseFactories
    /\ calls = <<>>
    /\ pc = [t \in Threads |-> "idle"]
    /\ seen = [t \in Threads |-> [n \in StaticNames |-> 0]]

\* the arguments a caller can still pass: none once limit calls were made
Callable(A, limit) == IF Len(calls) < limit THEN A ELSE {}

\* sequences of at most MaxCalls calls on the three factories
Next ==
    \/ \E a \in Callable(SmallArgs, MaxCalls) : CowCreate(a, MaxCalls)
    \/ \E a \in Callable(SmallArgs, MaxCalls) : CommonCreate(a, MaxCalls)
    \/ \E a \in Callable(SmallArgs, MaxCalls) : ArenaCreate(a, MaxCalls)
    \/ CowCreateInvalid(MaxCalls)
    \/ CommonCreateInvalid(MaxCalls)
    \/ ArenaCreateInvalid(MaxCalls)

Spec == Init /\ [][Next]_vars

\* one call of create, over all the arguments
NextArgs ==
    \/ \E a \in Callable(Args, 1) : CowCreate(a, 1)
    \/ \E a \in Callable(Args, 1) : CommonCreate(a, 1)
    \/ \E a \in Callable(Args, 1) : ArenaCreate(a, 1)

SpecArgs == Init /\ [][NextArgs]_vars

\* threads racing for the statics
NextLazy ==
    \/ \E t \in Threads, n \in StaticNames : LazyEnter(t, n)
    \/ \E t \in Threads : LazyInit(t)
    \/ \E t \in Threads, n \in StaticNames : LazyRead(t, n)

SpecLazy == Init /\ [][NextLazy]_vars

----------------------------------------------------------------------------
(* Properties *)

CreateCalls == {i \in 1..Len(calls) : calls[i].op = "create"}

InvalidCalls == {i \in 1..Len(calls) : calls[i].op = "create_invalid"}

Returned(i) == calls[i].ret.kind # "panic"

ArenaCreated ==
    {i \in CreateCalls : calls[i].factory = "ArenaFactory" /\ Returned(i)}

\* the representation the factory of call i produces is the copy-on-write one
IsCowCall(i) ==
    \/ calls[i].factory = "CowTokenFactory"
    \/ calls[i].factory = "ArenaFactory" /\ arenaTF = "CowTokenFactory"

C2_ExplicitText ==
    \A i \in CreateCalls :
        Len(calls[i].args.text) = 1 =>
            /\ Returned(i)
            /\ Deref(calls[i].ret).text.s = calls[i].args.text[1]

C2_Witness ==
    \E i \in CreateCalls :
        /\ calls[i].args.text = Some(FOO_TEXT)
        /\ Len(calls[i].args.source) = 1
        /\ calls[i].args.start >= Len(calls[i].args.source[1])
        /\ Deref(calls[i].ret).text.s = FOO_TEXT

\* C3: with a source and no explicit text, the text is "<EOF>" when start
\* or stop is at or beyond size(); when both are in 0..size()-1 it is
\* get_text(start, stop), queried with the start and stop of the call
C3_SourceText ==
    \A i \in CreateCalls :
        LET a == calls[i].args
        IN  (Len(a.source) = 1 /\ Len(a.text) = 0) =>
              /\ (a.start >= Len(a.source[1]) \/ a.stop >= Len(a.source[1])) =>
                    /\ Returned(i)
                    /\ Deref(calls[i].ret).text.s = EOF_TEXT
              /\ (/\ 0 <= a.start /\ a.start < Len(a.source[1])
                  /\ 0 <= a.stop /\ a.stop < Len(a.source[1])) =>
                    /\ Returned(i)
                    /\ calls[i].query = Some(<<a.start, a.stop>>)
                    /\ <<"ok", Deref(calls[i].ret).text.s>> \in
                          GetTextOutcomes(a.source[1], a.start, a.stop)

C3_Witness ==
    \E i \in CreateCalls :
        /\ calls[i].factory = "CommonTokenFactory"
        /\ calls[i].args.text = None
        /\ calls[i].args.source = Some(Data(2))
        /\ calls[i].args.start = 0 /\ calls[i].args.stop = 1
        /\ calls[i].query = Some(<<0, 1>>)
        /\ Deref(calls[i].ret).text.s = <<"a", "b">>

\* C4 as stated: create always returns a token, and with a source, no
\* explicit text and start or stop outside 0..size()-1 the text is "<EOF>"
\* and get_text is not queried
C4_TotalAndEOF ==
    \A i \in CreateCalls :
        LET a == calls[i].args
        IN  /\ Returned(i)
            /\ (/\ Len(a.source) = 1 /\ Len(a.text) = 0
                /\ \/ a.start \notin 0..(Len(a.source[1]) - 1)
                   \/ a.stop \notin 0..(Len(a.source[1]) - 1)) =>
                  /\ Deref(calls[i].ret).text.s = EOF_TEXT
                  /\ calls[i].query = None

\* C5: a token returned by create has token_index = -1, read_only = FALSE
\* and the token_type, channel, start, stop, line and column of the call
C5_Fields ==
    \A i \in CreateCalls :
        Returned(i) =>
            LET a == calls[i].args
                t == Deref(calls[i].ret)
            IN  /\ t.token_index = -1
                /\ t.read_only = FALSE
                /\ t.token_type = a.ttype
                /\ t.channel = a.channel
                /\ t.start = a.start
                /\ t.stop = a.stop
                /\ t.line = a.line
                /\ t.column = a.column

C5_Witness ==
    \E i \in CreateCalls :
        /\ Returned(i)
        /\ calls[i].factory = "CowTokenFactory"
        /\ calls[i].args.ttype = 2 /\ calls[i].args.channel = 1
        /\ calls[i].args.start = 1 /\ calls[i].args.stop = 0
        /\ calls[i].args.line = 2 /\ calls[i].args.column = 0
        /\ Deref(calls[i].ret).line = 2

\* C6: the token an ArenaFactory returns has the same fields as the token
\* its wrapped factory returns for the same arguments
C6_ArenaEqualsBase ==
    \A i \in CreateCalls, j \in CreateCalls :
        (/\ calls[i].factory = "ArenaFactory"
         /\ calls[j].factory = arenaTF
         /\ calls[i].args = calls[j].args
         /\ Returned(i) /\ Returned(j)) =>
            Deref(calls[i].ret) = Deref(calls[j].ret)

C6_Witness ==
    \E i \in CreateCalls, j \in CreateCalls :
        /\ calls[i].factory = "ArenaFactory"
        /\ calls[j].factory = arenaTF
        /\ calls[i].args = calls[j].args
        /\ Len(calls[i].query) = 1
        /\ Returned(i) /\ Returned(j)
        /\ calls[i].ret.kind = "arena" /\ calls[j].ret.kind = "box"

\* C7: every reference an ArenaFactory's create returned still reads the
\* token it read when it was returned; the references are pairwise
\* distinct and the arena holds one element per returned create
C7_ArenaStable ==
    /\ \A i \in ArenaCreated :
          /\ calls[i].ret.kind = "arena"
          /\ Deref(calls[i].ret) = calls[i].tok
          /\ \A j \in ArenaCreated : j # i => calls[j].ret # calls[i].ret
    /\ ArenaLen(arena) = Cardinality(ArenaCreated)

C7_Witness ==
    /\ Len(arena.rest) >= 1
    /\ Cardinality(ArenaCreated) >= 2
    /\ 1 \in ArenaCreated
    /\ calls[1].ret.buf # arena.current.buf

\* C8: a create_invalid call on an ArenaFactory leaves the arena as it was
\* and returns the static instance of its representation, the same handle
\* as every earlier create_invalid call on it
C8_ArenaInvalidFrame ==
    [][(/\ Len(calls') = Len(calls) + 1
        /\ calls'[Len(calls')].factory = "ArenaFactory"
        /\ calls'[Len(calls')].op = "create_invalid") =>
            /\ arena' = arena
            /\ calls'[Len(calls')].ret.kind = RefDefaultStatic(arenaTF)
            /\ \A j \in InvalidCalls :
                  calls[j].factory = "ArenaFactory" =>
                      calls'[Len(calls')].ret = calls[j].ret]_vars

C8_Witness ==
    /\ Len(calls) >= 3
    /\ calls[1].factory = "ArenaFactory" /\ calls[1].op = "create"
    /\ calls[2].factory = "ArenaFactory" /\ calls[2].op = "create_invalid"
    /\ calls[3].factory = "ArenaFactory" /\ calls[3].op = "create_invalid"
    /\ calls[2].ret = calls[3].ret
    /\ ArenaLen(arena) = 1

\* C9: each static is constructed at most once, every thread is handed
\* that one instance, and a completed static holds the fixed invalid token
C9_LazyOnce ==
    \A n \in StaticNames :
        /\ constructed[n] <= 1
        /\ once[n] = "COMPLETE" =>
              /\ Len(cell[n]) = 1
              /\ cell[n][1].tok.token_type = TOKEN_INVALID_TYPE
              /\ cell[n][1].tok.channel = 0
              /\ cell[n][1].tok.start = -1
              /\ cell[n][1].tok.stop = -1
              /\ cell[n][1].tok.line = -1
              /\ cell[n][1].tok.column = -1
              /\ cell[n][1].tok.token_index = -1
              /\ cell[n][1].tok.text.s = INVALID_TEXT
              /\ cell[n][1].tok.read_only = TRUE
        /\ \A t \in Threads :
              seen[t][n] # 0 =>
                  /\ once[n] = "COMPLETE"
                  /\ seen[t][n] = cell[n][1].inst
        /\ \A t \in Threads, u \in Threads :
              (seen[t][n] # 0 /\ seen[u][n] # 0) => seen[t][n] = seen[u][n]

C9_Witness ==
    \E t \in Threads, u \in Threads :
        /\ t # u
        /\ seen[t]["INVALID_COMMON"] = 1
        /\ seen[u]["INVALID_COMMON"] = 1
        /\ seen[t]["INVALID_OWNING"] = 1
        /\ constructed["INVALID_COMMON"] = 1

====
